---- MODULE Spec2Model ----
(***************************************************************************)
(* The YouTube transcript summarizer of src/summarize_yt.py: main's        *)
(* pipeline (model listing, summarizer setup, URL parsing, language        *)
(* listing, transcript fetch, llm_summarize, save_summary_to_pdf, the      *)
(* optional transcript dump), with llm_summarize and save_summary_to_pdf   *)
(* also exercised as functions on arguments of their own.                  *)
(*                                                                         *)
(* A Python str is a sequence of one-character strings, so that split,     *)
(* join, replace, the prompt templates and the file names are computed,    *)
(* not assumed.  None is a one-element sequence that is no str.            *)
(***************************************************************************)
EXTENDS Integers, Sequences, FiniteSets, TLC

VARIABLES
    pc,                      \* control location of the run
    available_models,        \* main: result of get_ollama_models()
    ollama_model,            \* main: the model name entered (or the default)
    summarizer,              \* main / llm_summarize argument: None or the model the lambda is bound to
    video_url,               \* main: the URL entered, stripped
    video_id,                \* main: Unbound until one of the branches assigns it
    available_langs,         \* main: result of list_available_languages
    lang,                    \* main: the language code entered
    transcript_text,         \* main / llm_summarize argument: the transcript as fetched
    llm_transcript_text,     \* llm_summarize: its parameter after line 115 reassigned it
    words,                   \* llm_summarize: local
    chunks,                  \* llm_summarize: local
    intermediate_summaries,  \* llm_summarize: local
    ret_line,                \* llm_summarize: the line of the return statement that ended it (0: not yet)
    summary,                 \* the value llm_summarize returned
    printed,                 \* what main printed under "Summary:" (None: nothing yet)
    pdf_filename,            \* main: the value save_summary_to_pdf returned
    posted,                  \* the backend's log of /api/generate requests, with what it answered
    calls,                   \* names of the transcript-service and file-system calls made, in order
    dirs,                    \* file system: the directories that exist
    files,                   \* file system: file name -> content
    now,                     \* the clock, in seconds after 2024-01-01 00:00:00
    history,                 \* save_summary_to_pdf called as a function: one record per invocation
    raised                   \* the exception that left the entry point (None: none)

vars == <<pc, available_models, ollama_model, summarizer, video_url, video_id,
          available_langs, lang, transcript_text, llm_transcript_text, words, chunks,
          intermediate_summaries, ret_line, summary, printed, pdf_filename, posted,
          calls, dirs, files, now, history, raised>>

None == <<"None">>
Unbound == <<"Unbound">>

\* the exceptions that can leave main or save_summary_to_pdf, by the line that raises
UnboundLocalError == <<"UnboundLocalError: video_id, line 201">>
MakedirsErrorInSave == <<"OSError: os.makedirs, line 156">>
MakedirsErrorInMain == <<"OSError: os.makedirs, line 219">>
WriteErrorInMain == <<"OSError: open/write, lines 222-223">>

(***************************************************************************)
(* Python's str and list operations                                        *)
(***************************************************************************)
Min(a, b) == IF a < b THEN a ELSE b

\* s[a:b] for 0 <= a <= b (b may exceed len(s))
Slice(s, a, b) == SubSeq(s, a + 1, Min(b, Len(s)))

\* range(start, stop, step) for step > 0, as a sequence
RECURSIVE Range(_, _, _)
Range(start, stop, step) ==
    IF start >= stop THEN << >> ELSE <<start>> \o Range(start + step, stop, step)

\* the characters str.split() and str.strip() treat as whitespace
IsSpace(c) == c \in {" ", "\n", "\t"}

\* positions lo..hi of s where a word (a maximal run of non-whitespace) starts
RECURSIVE WordStarts(_, _, _)
WordStarts(s, lo, hi) ==
    IF lo > hi THEN << >>
    ELSE IF lo = hi
         THEN IF ~IsSpace(s[lo]) /\ (lo = 1 \/ IsSpace(s[lo - 1])) THEN <<lo>> ELSE << >>
         ELSE LET mid == (lo + hi) \div 2
              IN WordStarts(s, lo, mid) \o WordStarts(s, mid + 1, hi)

\* positions lo..hi of s where a word ends
RECURSIVE WordEnds(_, _, _)
WordEnds(s, lo, hi) ==
    IF lo > hi THEN << >>
    ELSE IF lo = hi
         THEN IF ~IsSpace(s[lo]) /\ (lo = Len(s) \/ IsSpace(s[lo + 1])) THEN <<lo>> ELSE << >>
         ELSE LET mid == (lo + hi) \div 2
              IN WordEnds(s, lo, mid) \o WordEnds(s, mid + 1, hi)

\* s.split(): the words of s in order, whitespace runs dropped
split(s) ==
    LET starts == WordStarts(s, 1, Len(s))
        ends == WordEnds(s, 1, Len(s))
    IN [k \in 1..Len(starts) |-> SubSeq(s, starts[k], ends[k])]

\* sep.join(parts[lo..hi])
RECURSIVE JoinRange(_, _, _, _)
JoinRange(sep, parts, lo, hi) ==
    IF lo > hi THEN << >>
    ELSE IF lo = hi THEN parts[lo]
    ELSE LET mid == (lo + hi) \div 2
         IN JoinRange(sep, parts, lo, mid) \o sep \o JoinRange(sep, parts, mid + 1, hi)

\* sep.join(parts)
join(sep, parts) == JoinRange(sep, parts, 1, Len(parts))

UpperCase == <<"A","B","C","D","E","F","G","H","I","J","K","L","M",
               "N","O","P","Q","R","S","T","U","V","W","X","Y","Z">>
LowerCase == <<"a","b","c","d","e","f","g","h","i","j","k","l","m",
               "n","o","p","q","r","s","t","u","v","w","x","y","z">>
UpperSet == {UpperCase[i] : i \in 1..Len(UpperCase)}

\* s.lower()
lower(s) ==
    [i \in 1..Len(s) |->
        IF s[i] \in UpperSet
        THEN LowerCase[CHOOSE k \in 1..Len(UpperCase) : UpperCase[k] = s[i]]
        ELSE s[i]]

\* s.strip()
RECURSIVE strip(_)
strip(s) ==
    IF s = << >> THEN s
    ELSE IF IsSpace(s[1]) THEN strip(Tail(s))
    ELSE IF IsSpace(s[Len(s)]) THEN strip(SubSeq(s, 1, Len(s) - 1))
    ELSE s

\* sub in s
Contains(s, sub) ==
    \E i \in 1..(Len(s) - Len(sub) + 1) : SubSeq(s, i, i + Len(sub) - 1) = sub

\* s.split(sep): the pieces of s between the occurrences of sep, left to right
RECURSIVE SplitOn(_, _)
SplitOn(s, sep) ==
    IF ~Contains(s, sep) THEN <<s>>
    ELSE LET i == CHOOSE k \in 1..(Len(s) - Len(sep) + 1) :
                     /\ SubSeq(s, k, k + Len(sep) - 1) = sep
                     /\ \A j \in 1..(k - 1) : SubSeq(s, j, j + Len(sep) - 1) # sep
         IN <<SubSeq(s, 1, i - 1)>> \o SplitOn(SubSeq(s, i + Len(sep), Len(s)), sep)

\* s.replace(old, new) for a one-character old
RECURSIVE ReplaceRange(_, _, _, _, _)
ReplaceRange(s, old, new, lo, hi) ==
    IF lo > hi THEN << >>
    ELSE IF lo = hi THEN (IF s[lo] = old THEN new ELSE <<s[lo]>>)
    ELSE LET mid == (lo + hi) \div 2
         IN ReplaceRange(s, old, new, lo, mid) \o ReplaceRange(s, old, new, mid + 1, hi)

replace(s, old, new) == ReplaceRange(s, old, new, 1, Len(s))

(***************************************************************************)
(* String constants of the source                                          *)
(***************************************************************************)
\* "You are an expert summarizer. Provide only the summary content (do not include introductory phrases like 'Here is a concise, accurate summary of the text:'). Create a concise, accurate summary of the following text, focusing on main ideas and key details, omitting filler or redundant content:\n\n"
PromptHead ==
   <<"Y","o","u"," ","a","r","e"," ","a","n"," ","e","x","p","e","r","t"," ","s","u","m","m",
     "a","r","i","z","e","r","."," ","P","r","o","v","i","d","e"," ","o","n","l","y"," ","t",
     "h","e"," ","s","u","m","m","a","r","y"," ","c","o","n","t","e","n","t"," ","(","d","o",
     " ","n","o","t"," ","i","n","c","l","u","d","e"," ","i","n","t","r","o","d","u","c","t",
     "o","r","y"," ","p","h","r","a","s","e","s"," ","l","i","k","e"," ","'","H","e","r","e",
     " ","i","s"," ","a"," ","c","o","n","c","i","s","e",","," ","a","c","c","u","r","a","t",
     "e"," ","s","u","m","m","a","r","y"," ","o","f"," ","t","h","e"," ","t","e","x","t",":",
     "'",")","."," ","C","r","e","a","t","e"," ","a"," ","c","o","n","c","i","s","e",","," ",
     "a","c","c","u","r","a","t","e"," ","s","u","m","m","a","r","y"," ","o","f"," ","t","h",
     "e"," ","f","o","l","l","o","w","i","n","g"," ","t","e","x","t",","," ","f","o","c","u",
     "s","i","n","g"," ","o","n"," ","m","a","i","n"," ","i","d","e","a","s"," ","a","n","d",
     " ","k","e","y"," ","d","e","t","a","i","l","s",","," ","o","m","i","t","t","i","n","g",
     " ","f","i","l","l","e","r"," ","o","r"," ","r","e","d","u","n","d","a","n","t"," ","c",
     "o","n","t","e","n","t",":","\n","\n">>

\* "You are an expert summarizer. Provide only the summary content (no introductory phrases). Give a concise summary of the main points of the following text:\n\n"
ChunkPromptHead ==
   <<"Y","o","u"," ","a","r","e"," ","a","n"," ","e","x","p","e","r","t"," ","s","u","m","m",
     "a","r","i","z","e","r","."," ","P","r","o","v","i","d","e"," ","o","n","l","y"," ","t",
     "h","e"," ","s","u","m","m","a","r","y"," ","c","o","n","t","e","n","t"," ","(","n","o",
     " ","i","n","t","r","o","d","u","c","t","o","r","y"," ","p","h","r","a","s","e","s",")",
     "."," ","G","i","v","e"," ","a"," ","c","o","n","c","i","s","e"," ","s","u","m","m","a",
     "r","y"," ","o","f"," ","t","h","e"," ","m","a","i","n"," ","p","o","i","n","t","s"," ",
     "o","f"," ","t","h","e"," ","f","o","l","l","o","w","i","n","g"," ","t","e","x","t",":",
     "\n","\n">>

\* "You are an expert summarizer. Provide only the summary content (no introductory phrases). Combine these summaries into a single, precise summary:\n\n"
FinalPromptHead ==
   <<"Y","o","u"," ","a","r","e"," ","a","n"," ","e","x","p","e","r","t"," ","s","u","m","m",
     "a","r","i","z","e","r","."," ","P","r","o","v","i","d","e"," ","o","n","l","y"," ","t",
     "h","e"," ","s","u","m","m","a","r","y"," ","c","o","n","t","e","n","t"," ","(","n","o",
     " ","i","n","t","r","o","d","u","c","t","o","r","y"," ","p","h","r","a","s","e","s",")",
     "."," ","C","o","m","b","i","n","e"," ","t","h","e","s","e"," ","s","u","m","m","a","r",
     "i","e","s"," ","i","n","t","o"," ","a"," ","s","i","n","g","l","e",","," ","p","r","e",
     "c","i","s","e"," ","s","u","m","m","a","r","y",":","\n","\n">>

\* "\n\nSummary:"
PromptTail ==
   <<"\n","\n","S","u","m","m","a","r","y",":">>

\* "Unable to summarize."
UnableToSummarize ==
   <<"U","n","a","b","l","e"," ","t","o"," ","s","u","m","m","a","r","i","z","e",".">>

\* "Summary generation failed."
SummaryGenerationFailed ==
   <<"S","u","m","m","a","r","y"," ","g","e","n","e","r","a","t","i","o","n"," ","f","a","i",
     "l","e","d",".">>

\* "hello world this is a test"
T_hello ==
   <<"h","e","l","l","o"," ","w","o","r","l","d"," ","t","h","i","s"," ","i","s"," ","a"," ",
     "t","e","s","t">>

\* "Um  so\nYou KNOW the Cat sat"
T_noisy ==
   <<"U","m"," "," ","s","o","\n","Y","o","u"," ","K","N","O","W"," ","t","h","e"," ","C","a",
     "t"," ","s","a","t">>

\* "um uh a"
T_fillers ==
   <<"u","m"," ","u","h"," ","a">>

\* "Key "
R_key ==
   <<"K","e","y"," ">>

\* "points.\nDone."
R_points ==
   <<"p","o","i","n","t","s",".","\n","D","o","n","e",".">>

\* "ignored"
R_ignored ==
   <<"i","g","n","o","r","e","d">>

\* "llama3:latest"
llama3_latest ==
   <<"l","l","a","m","a","3",":","l","a","t","e","s","t">>

\* "mistral"
mistral ==
   <<"m","i","s","t","r","a","l">>

\* " mistral "
In_mistral ==
   <<" ","m","i","s","t","r","a","l"," ">>

\* "phi"
In_phi ==
   <<"p","h","i">>

\* "youtube.com"
youtube_com ==
   <<"y","o","u","t","u","b","e",".","c","o","m">>

\* "youtu.be"
youtu_be ==
   <<"y","o","u","t","u",".","b","e">>

\* "v="
v_eq ==
   <<"v","=">>

\* "&"
Amp ==
   <<"&">>

\* "/"
Slash ==
   <<"/">>

\* "?"
QMark ==
   <<"?">>

\* "abc123"
Id_abc123 ==
   <<"a","b","c","1","2","3">>

\* "long01"
Id_long01 ==
   <<"l","o","n","g","0","1">>

\* "silent"
Id_silent ==
   <<"s","i","l","e","n","t">>

\* "empty0"
Id_empty0 ==
   <<"e","m","p","t","y","0">>

\* " https://www.youtube.com/watch?v=abc123&t=10s "
Url_watch ==
   <<" ","h","t","t","p","s",":","/","/","w","w","w",".","y","o","u","t","u","b","e",".","c",
     "o","m","/","w","a","t","c","h","?","v","=","a","b","c","1","2","3","&","t","=","1","0",
     "s"," ">>

\* "https://youtu.be/abc123?t=5"
Url_short ==
   <<"h","t","t","p","s",":","/","/","y","o","u","t","u",".","b","e","/","a","b","c","1","2",
     "3","?","t","=","5">>

\* "https://www.youtube.com/shorts/abc123"
Url_shorts ==
   <<"h","t","t","p","s",":","/","/","w","w","w",".","y","o","u","t","u","b","e",".","c","o",
     "m","/","s","h","o","r","t","s","/","a","b","c","1","2","3">>

\* "https://youtu.be/silent"
Url_silent ==
   <<"h","t","t","p","s",":","/","/","y","o","u","t","u",".","b","e","/","s","i","l","e","n",
     "t">>

\* "https://www.youtube.com/watch?v=nocaps"
Url_nocaps ==
   <<"h","t","t","p","s",":","/","/","w","w","w",".","y","o","u","t","u","b","e",".","c","o",
     "m","/","w","a","t","c","h","?","v","=","n","o","c","a","p","s">>

\* "en"
En ==
   <<"e","n">>

\* "es"
Es ==
   <<"e","s">>

\* " en"
In_en ==
   <<" ","e","n">>

\* "fr"
Fr ==
   <<"f","r">>

\* "hello world"
C_hello_world ==
   <<"h","e","l","l","o"," ","w","o","r","l","d">>

\* "this is a test"
C_this_is_a_test ==
   <<"t","h","i","s"," ","i","s"," ","a"," ","t","e","s","t">>

\* "Um  so\nYou KNOW"
C_um_so ==
   <<"U","m"," "," ","s","o","\n","Y","o","u"," ","K","N","O","W">>

\* "the Cat sat"
C_the_cat ==
   <<"t","h","e"," ","C","a","t"," ","s","a","t">>

\* "summaries"
summaries ==
   <<"s","u","m","m","a","r","i","e","s">>

\* "transcripts"
transcripts ==
   <<"t","r","a","n","s","c","r","i","p","t","s">>

\* "summary_"
summary_ ==
   <<"s","u","m","m","a","r","y","_">>

\* "transcript_"
transcript_ ==
   <<"t","r","a","n","s","c","r","i","p","t","_">>

\* "_"
Underscore ==
   <<"_">>

\* ".pdf"
dot_pdf ==
   <<".","p","d","f">>

\* ".txt"
dot_txt ==
   <<".","t","x","t">>

\* "<br/>"
Br ==
   <<"<","b","r","/",">">>

\* "Video ID: "
VideoID_ ==
   <<"V","i","d","e","o"," ","I","D",":"," ">>

\* " - Language: "
_Language_ ==
   <<" ","-"," ","L","a","n","g","u","a","g","e",":"," ">>

\* "20240101"
Date20240101 ==
   <<"2","0","2","4","0","1","0","1">>

\* "0123456789"
Digits ==
   <<"0","1","2","3","4","5","6","7","8","9">>

\* "y"
Yes ==
   <<"y">>

\* " Y "
In_yes ==
   <<" ","Y"," ">>

\* "n"
No ==
   <<"n">>

\* "a"
Id_a ==
   <<"a">>

\* "a_b"
Id_a_b ==
   <<"a","_","b">>

\* "b_en"
B_en ==
   <<"b","_","e","n">>

\* "Key points.\nDone."
R_summary ==
   <<"K","e","y"," ","p","o","i","n","t","s",".","\n","D","o","n","e",".">>

Space == <<" ">>

filler_words == {<<"u","m">>, <<"u","h">>, <<"l","i","k","e">>, <<"y","o","u">>,
                 <<"k","n","o","w">>}

max_input_length == 4096

\* `not x` for a str or None
Falsy(x) == x = None \/ x = << >>

(***************************************************************************)
(* clean_transcript and the prompts of llm_summarize                       *)
(***************************************************************************)
\* clean_transcript as it would be with the length test forgotten
clean_transcript_keeping_short(text) ==
    join(Space, SelectSeq(split(text), LAMBDA word : lower(word) \notin filler_words))

clean_transcript(text) ==
    join(Space, SelectSeq(split(text),
                          LAMBDA word : Len(word) > 2 /\ lower(word) \notin filler_words))

direct_prompt(text) == PromptHead \o text \o PromptTail

chunk_prompt(chunk) == ChunkPromptHead \o chunk \o PromptTail

final_prompt(final_input) == FinalPromptHead \o final_input \o PromptTail

\* line 130 as it would be counting characters instead of words
OverLength_counting_chars(ws) == Len(join(Space, ws)) > max_input_length - 100

\* the test of line 130
OverLength(ws) == Len(ws) > max_input_length - 100

\* lines 131-132 as they would be with a slice one word short of the step
Chunks_slice_short(ws) ==
    LET size == max_input_length - 100
        starts == Range(0, Len(ws), size)
    IN [j \in 1..Len(starts) |-> join(Space, Slice(ws, starts[j], starts[j] + size - 1))]

\* the list comprehension of lines 131-132
Chunks(ws) ==
    LET size == max_input_length - 100
        starts == Range(0, Len(ws), size)
    IN [j \in 1..Len(starts) |-> join(Space, Slice(ws, starts[j], starts[j] + size))]

(***************************************************************************)
(* The backend: what the /api/generate server does with one request, and   *)
(* what ollama_generate makes of it                                        *)
(***************************************************************************)
ServerBehaviours == {"refused", "http_error", "stream", "empty_stream", "echo"}

JsonLine(response, done) ==
    [blank |-> FALSE, has_response |-> TRUE, response |-> response, done |-> done]
DoneLine == [blank |-> FALSE, has_response |-> FALSE, response |-> << >>, done |-> TRUE]
BlankLine == [blank |-> TRUE, has_response |-> FALSE, response |-> << >>, done |-> FALSE]

\* the lines response.iter_lines() yields
StreamedLines(b, prompt) ==
    CASE b = "stream" ->
            <<JsonLine(R_key, FALSE), BlankLine, JsonLine(R_points, FALSE), DoneLine,
              JsonLine(R_ignored, FALSE)>>
      [] b = "empty_stream" -> <<BlankLine, JsonLine(<< >>, TRUE)>>
      [] b = "echo" -> <<JsonLine(prompt, TRUE)>>
      [] OTHER -> << >>

\* the loop of lines 61-68
RECURSIVE full_response(_)
full_response(lines) ==
    IF lines = << >> THEN << >>
    ELSE LET line == Head(lines)
         IN IF line.blank THEN full_response(Tail(lines))
            ELSE (IF line.has_response THEN line.response ELSE << >>)
                 \o (IF line.done THEN << >> ELSE full_response(Tail(lines)))

Raise == [raised |-> TRUE, value |-> << >>]
Return(v) == [raised |-> FALSE, value |-> v]

ollama_generate(prompt, model_name, max_new_tokens, b) ==
    IF b \in {"refused", "http_error"} THEN Raise
    ELSE LET r == full_response(StreamedLines(b, prompt))
         IN IF r # << >> THEN Return(r) ELSE Raise

\* the request as the server logs it, with what became of it
Posted(prompt, model_name, max_new_tokens, r) ==
    [model |-> model_name, prompt |-> prompt, max_tokens |-> max_new_tokens,
     raised |-> r.raised, response |-> r.value]

(***************************************************************************)
(* llm_summarize, one step per backend call                                *)
(***************************************************************************)
llm_locals == <<llm_transcript_text, words, chunks, intermediate_summaries>>
main_locals == <<available_models, ollama_model, video_url, video_id, available_langs,
                 lang, printed, pdf_filename>>
world == <<calls, dirs, files, now, history, raised>>

\* a return statement of llm_summarize: the locals go, the caller has the value
LlmReturn(value, line) ==
    /\ summary' = value
    /\ ret_line' = line
    /\ pc' = "summarized"
    /\ llm_transcript_text' = << >>
    /\ words' = << >>
    /\ chunks' = << >>
    /\ intermediate_summaries' = << >>

\* lines 110-132: the guard, the cleaning, the split and the chunking
LlmEnter ==
    /\ pc = "llm_summarize"
    /\ IF Falsy(transcript_text) \/ summarizer = None
       THEN LlmReturn(UnableToSummarize, 111)
       ELSE LET text == clean_transcript(transcript_text)
                ws == split(text)
            IN /\ llm_transcript_text' = text
               /\ words' = ws
               /\ chunks' = IF OverLength(ws) THEN Chunks(ws) ELSE << >>
               /\ pc' = IF OverLength(ws) THEN "llm_map" ELSE "llm_direct"
               /\ UNCHANGED <<intermediate_summaries, summary, ret_line>>
    /\ UNCHANGED <<transcript_text, summarizer, posted, main_locals, world>>

\* the loop as it would be with the try inside it: a failed chunk is skipped
LlmMap_skipping_failures ==
    /\ pc = "llm_map"
    /\ \E b \in ServerBehaviours :
          LET j == Len(intermediate_summaries) + 1
              p == chunk_prompt(chunks[j])
              r == ollama_generate(p, summarizer, 100, b)
          IN /\ posted' = Append(posted, Posted(p, summarizer, 100, r))
             /\ intermediate_summaries' = Append(intermediate_summaries, r.value)
             /\ pc' = IF j = Len(chunks) THEN "llm_reduce" ELSE "llm_map"
             /\ UNCHANGED <<llm_transcript_text, words, chunks, summary, ret_line>>
    /\ UNCHANGED <<transcript_text, summarizer, main_locals, world>>

\* the loop as it would be leaving the last chunk out
LlmMap_without_last_chunk ==
    /\ pc = "llm_map"
    /\ \E b \in ServerBehaviours :
          LET j == Len(intermediate_summaries) + 1
              p == chunk_prompt(chunks[j])
              r == ollama_generate(p, summarizer, 100, b)
          IN /\ posted' = Append(posted, Posted(p, summarizer, 100, r))
             /\ IF r.raised
                THEN LlmReturn(SummaryGenerationFailed, 149)
                ELSE /\ intermediate_summaries' = Append(intermediate_summaries, r.value)
                     /\ pc' = IF j >= Len(chunks) - 1 THEN "llm_reduce" ELSE "llm_map"
                     /\ UNCHANGED <<llm_transcript_text, words, chunks, summary, ret_line>>
    /\ UNCHANGED <<transcript_text, summarizer, main_locals, world>>

\* lines 134-137: one iteration of the loop over the chunks
LlmMap ==
    /\ pc = "llm_map"
    /\ \E b \in ServerBehaviours :
          LET j == Len(intermediate_summaries) + 1
              p == chunk_prompt(chunks[j])
              r == ollama_generate(p, summarizer, 100, b)
          IN /\ posted' = Append(posted, Posted(p, summarizer, 100, r))
             /\ IF r.raised
                THEN LlmReturn(SummaryGenerationFailed, 149)
                ELSE /\ intermediate_summaries' = Append(intermediate_summaries, r.value)
                     /\ pc' = IF j = Len(chunks) THEN "llm_reduce" ELSE "llm_map"
                     /\ UNCHANGED <<llm_transcript_text, words, chunks, summary, ret_line>>
    /\ UNCHANGED <<transcript_text, summarizer, main_locals, world>>

\* lines 138-144: the final prompt over the joined partial summaries
LlmReduce ==
    /\ pc = "llm_reduce"
    /\ \E b \in ServerBehaviours :
          LET p == final_prompt(join(Space, intermediate_summaries))
              r == ollama_generate(p, summarizer, 120, b)
          IN /\ posted' = Append(posted, Posted(p, summarizer, 120, r))
             /\ IF r.raised
                THEN LlmReturn(SummaryGenerationFailed, 149)
                ELSE LlmReturn(r.value, 144)
    /\ UNCHANGED <<transcript_text, summarizer, main_locals, world>>

\* line 146: the whole text in one prompt
LlmDirect ==
    /\ pc = "llm_direct"
    /\ \E b \in ServerBehaviours :
          LET p == direct_prompt(llm_transcript_text)
              r == ollama_generate(p, summarizer, 120, b)
          IN /\ posted' = Append(posted, Posted(p, summarizer, 120, r))
             /\ IF r.raised
                THEN LlmReturn(SummaryGenerationFailed, 149)
                ELSE LlmReturn(r.value, 146)
    /\ UNCHANGED <<transcript_text, summarizer, main_locals, world>>

(***************************************************************************)
(* Transcripts long enough to be chunked                                   *)
(***************************************************************************)
MaxChunks == 2

Letters == <<"a","b","c","d","e","f","g","h","i","j","k","l",
             "m","n","o","p","q","r","s","t","u","v","w","x">>

\* the i-th caption word: three letters, different for different i
Word(i) ==
    <<Letters[((i \div (Len(Letters) * Len(Letters))) % Len(Letters)) + 1],
      Letters[((i \div Len(Letters)) % Len(Letters)) + 1],
      Letters[(i % Len(Letters)) + 1]>>

\* the i-th caption: one word, every fourth one after an "um"
Caption(i, noisy) ==
    IF noisy /\ i % 4 = 0 THEN <<"u","m"," ">> \o Word(i) ELSE Word(i)

LongCaptions(n, noisy) == [i \in 1..n |-> Caption(i, noisy)]

\* a transcript of n captions as get_transcript_text joins them
LongText(n, noisy) == join(Space, LongCaptions(n, noisy))

LlmTexts ==
    {None, << >>, Space, T_hello, T_noisy, T_fillers,
     LongText(max_input_length - 100 - 1, FALSE)}
    \cup {LongText(k * (max_input_length - 100) + d, TRUE) : k \in 1..MaxChunks, d \in {0, 1}}

(***************************************************************************)
(* The Ollama /api/tags endpoint, get_ollama_models and                    *)
(* setup_ollama_summarizer                                                 *)
(***************************************************************************)
\* what one GET of /api/tags can come to
TagsResponses ==
    {[refused |-> TRUE, status |-> 0, models |-> << >>],
     [refused |-> FALSE, status |-> 500, models |-> << >>],
     [refused |-> FALSE, status |-> 200, models |-> << >>],
     [refused |-> FALSE, status |-> 200, models |-> <<llama3_latest, mistral>>]}

\* x in a list
InList(x, list) == \E i \in 1..Len(list) : list[i] = x

get_ollama_models(response) ==
    IF response.refused THEN << >>
    ELSE IF response.status = 200 THEN response.models
    ELSE << >>

\* None, or the model name the returned lambda passes to ollama_generate
setup_ollama_summarizer(model_name, response, tags) ==
    IF response.refused \/ response.status # 200 THEN None
    ELSE LET models == get_ollama_models(tags)
         IN IF models = << >> THEN None
            ELSE IF ~InList(model_name, models) THEN None
            ELSE model_name

(***************************************************************************)
(* The transcript service: the videos it knows, list_available_languages   *)
(* and get_transcript_text                                                 *)
(***************************************************************************)
LongVideoWords == max_input_length - 100 + 1

\* the language codes list_transcripts yields for a video; None: it raises
Languages(id) ==
    CASE id = Id_abc123 -> <<En, Es>>
      [] id = Id_long01 -> <<En>>
      [] id = Id_silent -> <<En>>
      [] id = Id_empty0 -> << >>
      [] OTHER -> None

\* the caption texts get_transcript yields; None: it raises
Captions(id, code) ==
    CASE id = Id_abc123 /\ code = En -> <<C_hello_world, C_this_is_a_test>>
      [] id = Id_abc123 /\ code = Es -> <<C_um_so, C_the_cat>>
      [] id = Id_long01 /\ code = En -> LongCaptions(LongVideoWords, TRUE)
      [] id = Id_silent /\ code = En -> << >>
      [] OTHER -> None

list_available_languages(id, reachable) ==
    IF ~reachable \/ Languages(id) = None THEN << >> ELSE Languages(id)

get_transcript_text(id, code, reachable) ==
    IF ~reachable \/ Captions(id, code) = None THEN None
    ELSE join(Space, Captions(id, code))

(***************************************************************************)
(* The file system, the clock and save_summary_to_pdf                      *)
(***************************************************************************)
MaxNow == 1

Digit(n) == Digits[n + 1]
TwoDigits(n) == <<Digit((n \div 10) % 10), Digit(n % 10)>>

\* datetime.strftime("%Y%m%d_%H%M%S") of the clock, within the first day
strftime(t) ==
    Date20240101 \o Underscore \o TwoDigits((t \div 3600) % 24)
        \o TwoDigits((t \div 60) % 60) \o TwoDigits(t % 60)

\* the file system after a file is written: created, or its content replaced
Written(fs, name, content) ==
    [n \in DOMAIN fs \cup {name} |-> IF n = name THEN content ELSE fs[n]]

\* the file name as it would be without the video identifier
summary_filename_without_id(id, code, timestamp) ==
    summaries \o Slash \o summary_ \o code \o Underscore \o timestamp \o dot_pdf

summary_filename(id, code, timestamp) ==
    summaries \o Slash \o summary_ \o id \o Underscore \o code \o Underscore
        \o timestamp \o dot_pdf

transcript_filename(id, code, timestamp) ==
    transcripts \o Slash \o transcript_ \o id \o Underscore \o code \o Underscore
        \o timestamp \o dot_txt

\* the document of lines 162-168
PdfDocument(text, id, code) ==
    [heading |-> VideoID_ \o id \o _Language_ \o code,
     body |-> replace(text, "\n", Br)]

\* save_summary_to_pdf(text, id, code) on the directories ds and files fs at time t;
\* mkdir_ok: os.makedirs succeeds; build_ok: SimpleDocTemplate.build succeeds.
\* escaped: an exception left the function (value is then meaningless).
save_summary_to_pdf(text, id, code, ds, fs, t, mkdir_ok, build_ok) ==
    IF summaries \notin ds /\ ~mkdir_ok
    THEN [escaped |-> TRUE, value |-> None, dirs |-> ds, files |-> fs]
    ELSE LET filename == summary_filename(id, code, strftime(t))
         IN IF build_ok
            THEN [escaped |-> FALSE, value |-> filename, dirs |-> ds \cup {summaries},
                  files |-> Written(fs, filename, PdfDocument(text, id, code))]
            ELSE [escaped |-> FALSE, value |-> None, dirs |-> ds \cup {summaries},
                  files |-> fs]

(***************************************************************************)
(* main                                                                    *)
(***************************************************************************)
ModelInputs == {<< >>, In_mistral, In_phi}
UrlInputs ==
    {Id_abc123, Url_watch, Url_short, Url_shorts, Id_long01, Url_silent, Id_empty0,
     Url_nocaps}
LangInputs == {In_en, Es, Fr}
SaveInputs == {Yes, In_yes, No}

\* lines 193-199; Unbound when no branch assigns video_id
ParseVideoId(url) ==
    IF Contains(url, youtube_com) \/ Contains(url, youtu_be)
    THEN IF Contains(url, v_eq)
         THEN SplitOn(SplitOn(url, v_eq)[2], Amp)[1]
         ELSE IF Contains(url, youtu_be)
              THEN LET parts == SplitOn(url, Slash)
                   IN SplitOn(parts[Len(parts)], QMark)[1]
              ELSE Unbound
    ELSE url

llm_state == <<llm_transcript_text, words, chunks, intermediate_summaries, ret_line,
               summary, posted>>

\* lines 178-185
CheckModels ==
    /\ pc = "main"
    /\ \E response \in TagsResponses :
          /\ available_models' = get_ollama_models(response)
          /\ pc' = IF available_models' = << >> THEN "exit" ELSE "setup"
    /\ calls' = Append(calls, "get_ollama_models")
    /\ UNCHANGED <<ollama_model, summarizer, video_url, video_id, available_langs, lang,
                   transcript_text, printed, pdf_filename, llm_state, dirs, files, now,
                   history, raised>>

\* lines 186-190
Setup ==
    /\ pc = "setup"
    /\ \E input \in ModelInputs, response \in TagsResponses, tags \in TagsResponses :
          /\ ollama_model' = IF strip(input) = << >> THEN llama3_latest ELSE strip(input)
          /\ summarizer' = setup_ollama_summarizer(ollama_model', response, tags)
          /\ pc' = IF summarizer' = None THEN "exit" ELSE "read_url"
    /\ calls' = Append(calls, "setup_ollama_summarizer")
    /\ UNCHANGED <<available_models, video_url, video_id, available_langs, lang,
                   transcript_text, printed, pdf_filename, llm_state, dirs, files, now,
                   history, raised>>

\* lines 192-199
ReadUrl ==
    /\ pc = "read_url"
    /\ \E input \in UrlInputs :
          /\ video_url' = strip(input)
          /\ video_id' = ParseVideoId(video_url')
    /\ pc' = "list_languages"
    /\ UNCHANGED <<available_models, ollama_model, summarizer, available_langs, lang,
                   transcript_text, printed, pdf_filename, llm_state, calls, dirs, files,
                   now, history, raised>>

\* lines 201-204 as they would be without the return of line 204
ListLanguages_without_return ==
    /\ pc = "list_languages"
    /\ IF video_id = Unbound
       THEN /\ raised' = UnboundLocalError
            /\ pc' = "crashed"
            /\ UNCHANGED <<available_langs, calls>>
       ELSE /\ \E reachable \in BOOLEAN :
                  available_langs' = list_available_languages(video_id, reachable)
            /\ calls' = Append(calls, "list_available_languages")
            /\ pc' = "fetch_transcript"
            /\ UNCHANGED raised
    /\ UNCHANGED <<available_models, ollama_model, summarizer, video_url, video_id, lang,
                   transcript_text, printed, pdf_filename, llm_state, dirs, files, now,
                   history>>

\* lines 201-204; reading the unassigned video_id raises UnboundLocalError
ListLanguages ==
    /\ pc = "list_languages"
    /\ IF video_id = Unbound
       THEN /\ raised' = UnboundLocalError
            /\ pc' = "crashed"
            /\ UNCHANGED <<available_langs, calls>>
       ELSE /\ \E reachable \in BOOLEAN :
                  available_langs' = list_available_languages(video_id, reachable)
            /\ calls' = Append(calls, "list_available_languages")
            /\ pc' = IF available_langs' = << >> THEN "exit" ELSE "fetch_transcript"
            /\ UNCHANGED raised
    /\ UNCHANGED <<available_models, ollama_model, summarizer, video_url, video_id, lang,
                   transcript_text, printed, pdf_filename, llm_state, dirs, files, now,
                   history>>

\* lines 206-210, up to the call of llm_summarize
FetchTranscript ==
    /\ pc = "fetch_transcript"
    /\ \E input \in LangInputs, reachable \in BOOLEAN :
          /\ lang' = strip(input)
          /\ transcript_text' = get_transcript_text(video_id, lang', reachable)
    /\ calls' = Append(calls, "get_transcript_text")
    /\ pc' = IF Falsy(transcript_text') THEN "exit" ELSE "llm_summarize"
    /\ UNCHANGED <<available_models, ollama_model, summarizer, video_url, video_id,
                   available_langs, printed, pdf_filename, llm_state, dirs, files, now,
                   history, raised>>

\* lines 210-213: the summary is printed and handed to save_summary_to_pdf
PrintAndSave ==
    /\ pc = "summarized"
    /\ printed' = summary
    /\ \E t \in now..MaxNow, mkdir_ok \in BOOLEAN, build_ok \in BOOLEAN :
          LET r == save_summary_to_pdf(summary, video_id, lang, dirs, files, t,
                                       mkdir_ok, build_ok)
          IN /\ now' = t
             /\ dirs' = r.dirs
             /\ files' = r.files
             /\ pdf_filename' = r.value
             /\ raised' = IF r.escaped THEN MakedirsErrorInSave ELSE None
             /\ pc' = IF r.escaped THEN "crashed" ELSE "ask_save"
    /\ calls' = Append(calls, "save_summary_to_pdf")
    /\ UNCHANGED <<available_models, ollama_model, summarizer, video_url, video_id,
                   available_langs, lang, transcript_text, llm_state, history>>

\* lines 215-224: the optional dump of the transcript
AskSave ==
    /\ pc = "ask_save"
    /\ \E input \in SaveInputs, t \in now..MaxNow, mkdir_ok \in BOOLEAN,
          write_ok \in BOOLEAN :
          IF strip(lower(input)) # Yes
          THEN /\ pc' = "exit"
               /\ UNCHANGED <<dirs, files, now, raised, calls>>
          ELSE IF transcripts \notin dirs /\ ~mkdir_ok
          THEN /\ pc' = "crashed"
               /\ raised' = MakedirsErrorInMain
               /\ calls' = Append(calls, "makedirs")
               /\ UNCHANGED <<dirs, files, now>>
          ELSE /\ dirs' = dirs \cup {transcripts}
               /\ now' = t
               /\ calls' = Append(calls, "open")
               /\ IF write_ok
                  THEN /\ files' = Written(files, transcript_filename(video_id, lang,
                                                                      strftime(t)),
                                           [text |-> transcript_text])
                       /\ pc' = "exit"
                       /\ raised' = None
                  ELSE /\ files' = files
                       /\ pc' = "crashed"
                       /\ raised' = WriteErrorInMain
    /\ UNCHANGED <<available_models, ollama_model, summarizer, video_url, video_id,
                   available_langs, lang, transcript_text, printed, pdf_filename,
                   llm_state, history>>

(***************************************************************************)
(* The specifications                                                      *)
(***************************************************************************)
NoMainLocals ==
    /\ available_models = << >>
    /\ ollama_model = None
    /\ video_url = None
    /\ video_id = Unbound
    /\ available_langs = << >>
    /\ lang = None
    /\ printed = None
    /\ pdf_filename = None

NoLlmState ==
    /\ llm_transcript_text = << >>
    /\ words = << >>
    /\ chunks = << >>
    /\ intermediate_summaries = << >>
    /\ ret_line = 0
    /\ summary = None
    /\ posted = << >>

\* one run of main
Init ==
    /\ pc = "main"
    /\ NoMainLocals
    /\ summarizer = None
    /\ transcript_text = None
    /\ NoLlmState
    /\ calls = << >>
    /\ dirs \in SUBSET {summaries, transcripts}
    /\ files = << >>
    /\ now = 0
    /\ history = << >>
    /\ raised = None

Next ==
    \/ CheckModels
    \/ Setup
    \/ ReadUrl
    \/ ListLanguages
    \/ FetchTranscript
    \/ LlmEnter
    \/ LlmMap
    \/ LlmReduce
    \/ LlmDirect
    \/ PrintAndSave
    \/ AskSave

Spec == Init /\ [][Next]_vars

\* llm_summarize(transcript_text, summarizer) called on arguments of its own
InitLLM ==
    /\ pc = "llm_summarize"
    /\ transcript_text \in LlmTexts
    /\ summarizer \in {None, llama3_latest}
    /\ NoMainLocals
    /\ NoLlmState
    /\ calls = << >>
    /\ dirs = {}
    /\ files = << >>
    /\ now = 0
    /\ history = << >>
    /\ raised = None

NextLLM == LlmEnter \/ LlmMap \/ LlmReduce \/ LlmDirect

SpecLLM == InitLLM /\ [][NextLLM]_vars

\* save_summary_to_pdf called as a function, several times on one file system
MaxInvocations == 2

PdfTexts == {R_summary, SummaryGenerationFailed}
PdfIds == {Id_abc123, Id_a, Id_a_b}
PdfLangs == {En, B_en}

InitPdf ==
    /\ pc = "save_summary_to_pdf"
    /\ NoMainLocals
    /\ summarizer = None
    /\ transcript_text = None
    /\ NoLlmState
    /\ calls = << >>
    /\ dirs \in {{}, {summaries}}
    /\ files = << >>
    /\ now = 0
    /\ history = << >>
    /\ raised = None

\* one invocation: the arguments, the time, what it found and what it returned
CallSavePdf ==
    /\ pc = "save_summary_to_pdf"
    /\ Len(history) < MaxInvocations
    /\ \E text \in PdfTexts, id \in PdfIds, code \in PdfLangs, t \in now..MaxNow,
          mkdir_ok \in BOOLEAN, build_ok \in BOOLEAN :
          LET r == save_summary_to_pdf(text, id, code, dirs, files, t, mkdir_ok, build_ok)
          IN /\ now' = t
             /\ dirs' = r.dirs
             /\ files' = r.files
             /\ raised' = IF r.escaped THEN MakedirsErrorInSave ELSE None
             /\ pc' = IF r.escaped THEN "crashed" ELSE "save_summary_to_pdf"
             /\ history' = Append(history,
                                  [summary |-> text, video_id |-> id, lang |-> code,
                                   at |-> t, escaped |-> r.escaped, value |-> r.value,
                                   dirs_before |-> dirs, files_before |-> files])
    /\ calls' = Append(calls, "save_summary_to_pdf")
    /\ UNCHANGED <<available_models, ollama_model, summarizer, video_url, video_id,
                   available_langs, lang, transcript_text, printed, pdf_filename,
                   llm_state>>

NextPdf == CallSavePdf

SpecPdf == InitPdf /\ [][NextPdf]_vars

(***************************************************************************)
(* The claims                                                              *)
(***************************************************************************)
CeilDiv(a, b) == (a + b - 1) \div b

\* the request log holds exactly the answered requests, then at most one failed one
OnlyLastCallFails == \A i \in 1..(Len(posted) - 1) : ~posted[i].raised

NoCallFailed == \A i \in 1..Len(posted) : ~posted[i].raised

\* C1: when llm_summarize chunks (the cleaned text has W > 3996 words), there are
\* ceil(W / 3996) chunks, and the chunks joined in order with single spaces have
\* exactly the word sequence of the text that was chunked.
C1_ChunkCountAndReconstruction ==
    pc \in {"llm_map", "llm_reduce"} =>
        LET chunked == split(llm_transcript_text)
            W == Len(chunked)
        IN /\ W > 3996
           /\ words = chunked
           /\ Len(chunks) = CeilDiv(W, 3996)
           /\ split(join(Space, chunks)) = chunked

\* C1 happens: a text of 2 * 3996 + 1 words is in three chunks, the last of one word
C1_Witness ==
    /\ pc = "llm_map"
    /\ Len(words) = 2 * 3996 + 1
    /\ Len(chunks) = 3
    /\ Len(split(chunks[3])) = 1

\* the call of llm_summarize C2 is about has returned
C2_Case ==
    /\ pc = "summarized"
    /\ ~Falsy(transcript_text)
    /\ summarizer # None
    /\ Len(split(transcript_text)) < 3996

\* C2 as stated: below the threshold the backend is called once, with the direct
\* prompt around the full transcript text as it was passed in.
C2_PromptEmbedsTranscript ==
    C2_Case => /\ Len(posted) = 1
               /\ posted[1].prompt = PromptHead \o transcript_text \o PromptTail

\* C2 amended: below the threshold the backend is called once, with the direct
\* prompt around the cleaned transcript text (short and filler words removed, the
\* rest joined by single spaces); no map or reduce prompt is posted.
C2_PromptEmbedsCleanedTranscript ==
    C2_Case => /\ Len(posted) = 1
               /\ posted[1].prompt
                     = PromptHead \o clean_transcript(transcript_text) \o PromptTail
               /\ posted[1].max_tokens = 120

\* C2 happens: a transcript one word below the threshold, and one that cleaning changes
C2_Witness ==
    /\ C2_Case
    /\ Len(posted) = 1
    /\ \/ Len(split(transcript_text)) = 3996 - 1
       \/ /\ transcript_text = T_noisy
          /\ clean_transcript(transcript_text) # transcript_text

\* C3 as stated: only the last backend call can be a failed one, and every return of
\* llm_summarize that is not a backend answer returns the one string
\* "Summary generation failed.".
C3_OneFailureString ==
    /\ OnlyLastCallFails
    /\ (pc = "summarized" /\ ret_line \notin {144, 146})
          => summary = SummaryGenerationFailed

\* C3 amended: only the last backend call can be a failed one (no call after it, no
\* retry); a failed call makes llm_summarize return "Summary generation failed." and
\* nothing of the partial summaries; the guard on an empty transcript or a missing
\* summarizer returns the other fixed string, "Unable to summarize.", with no call.
C3_FailurePolicy ==
    /\ OnlyLastCallFails
    /\ pc = "summarized" =>
          /\ ret_line \in {111, 144, 146, 149}
          /\ (posted # << >> /\ posted[Len(posted)].raised)
                => (summary = SummaryGenerationFailed /\ ret_line = 149)
          /\ ret_line = 149 => (posted # << >> /\ posted[Len(posted)].raised)
          /\ ret_line = 111 => (summary = UnableToSummarize /\ posted = << >>)

\* C3 happens: the second map call of three failed after the first was answered
C3_Witness ==
    /\ pc = "summarized"
    /\ ret_line = 149
    /\ Len(posted) = 2
    /\ ~posted[1].raised
    /\ posted[2].raised
    /\ Len(split(clean_transcript(transcript_text))) > 2 * 3996

\* C4: when no model is listed, the summarizer setup fails or the language list is
\* empty, main has returned: get_transcript_text is never called after an empty
\* language list, and in all three cases no request reaches the backend, nothing is
\* summarized or printed and no file is written.
C4_EarlyReturn ==
    LET no_models == calls # << >> /\ available_models = << >>
        setup_failed == InList("setup_ollama_summarizer", calls) /\ summarizer = None
        no_languages == InList("list_available_languages", calls) /\ available_langs = << >>
    IN (no_models \/ setup_failed \/ no_languages) =>
          /\ pc = "exit"
          /\ ~InList("get_transcript_text", calls)
          /\ ~InList("save_summary_to_pdf", calls)
          /\ posted = << >>
          /\ summary = None
          /\ printed = None
          /\ files = << >>

\* C4 happens: the languages were listed for a video and there were none
C4_Witness ==
    /\ pc = "exit"
    /\ summarizer # None
    /\ video_id = Id_empty0
    /\ InList("list_available_languages", calls)
    /\ available_langs = << >>

\* C5 as stated: no error escapes save_summary_to_pdf, a failure to create the
\* output directory included, and main goes on to the transcript prompt with the
\* path of a written file or None.
C5_SaveNeverRaises ==
    /\ raised # MakedirsErrorInSave
    /\ pc = "ask_save" => (pdf_filename = None \/ pdf_filename \in DOMAIN files)

\* C6 as stated: no exception of an external call leaves main.
C6_NoExternalErrorLeavesMain ==
    raised \notin {MakedirsErrorInSave, MakedirsErrorInMain, WriteErrorInMain}

\* "hello world this test"
T_hello_cleaned ==
   <<"h","e","l","l","o"," ","w","o","r","l","d"," ","t","h","i","s"," ","t","e","s","t">>

\* "summaries/summary_abc123_en_"
summaries_summary_abc123_en_ ==
   <<"s","u","m","m","a","r","i","e","s","/","s","u","m","m","a","r","y","_","a","b","c","1",
     "2","3","_","e","n","_">>

\* the end-to-end run of C7: "hello world this is a test" for abc123/en, a backend
\* that echoes the prompt, the summary printed and the document written
C7_Case ==
    /\ video_id = Id_abc123
    /\ lang = En
    /\ transcript_text = T_hello
    /\ Len(posted) = 1
    /\ ~posted[1].raised
    /\ posted[1].response = posted[1].prompt
    /\ printed # None
    /\ pdf_filename # None

\* C7 as stated: the summary printed is the direct prompt around the input text, and
\* a file summaries/summary_abc123_en_<timestamp> exists.
C7_PrintsPromptAroundInput ==
    C7_Case =>
        /\ printed = PromptHead \o T_hello \o PromptTail
        /\ \E f \in DOMAIN files :
              SubSeq(f, 1, Len(summaries_summary_abc123_en_)) = summaries_summary_abc123_en_

\* C7 amended: the summary printed is the direct prompt around the cleaned text,
\* "hello world this test" ("is" and "a" are too short to be kept), and a file
\* summaries/summary_abc123_en_<timestamp> exists once save_summary_to_pdf has
\* returned its path.
C7_PrintsPromptAroundCleanedInput ==
    C7_Case =>
        /\ printed = PromptHead \o T_hello_cleaned \o PromptTail
        /\ \E f \in DOMAIN files :
              SubSeq(f, 1, Len(summaries_summary_abc123_en_)) = summaries_summary_abc123_en_

\* C7 happens: the run has ended with the document written
C7_Witness == C7_Case /\ pc = "exit" /\ pdf_filename \in DOMAIN files

\* two invocations of save_summary_to_pdf that returned a path, in the same second,
\* with the same summary and language and different video identifiers
C8_Pair(i, j) ==
    /\ i < j
    /\ history[i].value # None
    /\ history[j].value # None
    /\ history[i].at = history[j].at
    /\ history[i].summary = history[j].summary
    /\ history[i].lang = history[j].lang
    /\ history[i].video_id # history[j].video_id

\* C8: an invocation that returns leaves the directory summaries in place: created
\* when it was missing, and when it existed with every file it held still there
\* and, but for the file just written, unchanged; two invocations in the same
\* second that differ only by video identifier write two files, the first one's
\* untouched by the second.
C8_DirectoryAndDistinctFiles ==
    /\ \A j \in 1..Len(history) :
          ~history[j].escaped => summaries \in dirs
    /\ (history # << >> /\ ~history[Len(history)].escaped) =>
          LET last == history[Len(history)]
          IN /\ summaries \in last.dirs_before => dirs = last.dirs_before
             /\ \A n \in DOMAIN last.files_before :
                   /\ n \in DOMAIN files
                   /\ n # last.value => files[n] = last.files_before[n]
    /\ \A i, j \in 1..Len(history) :
          C8_Pair(i, j) =>
              /\ history[i].value # history[j].value
              /\ history[i].value \in DOMAIN files
              /\ j = Len(history) =>
                    files[history[i].value] = history[j].files_before[history[i].value]

\* C8 happens: the first invocation created the directory, the second ran in the
\* same second for another video
C8_Witness ==
    /\ Len(history) >= 2
    /\ history[1].dirs_before = {}
    /\ C8_Pair(1, 2)
    /\ Cardinality(DOMAIN files) = 2

\* a run of llm_summarize on an oversized transcript in which no backend call failed
C9_Case ==
    /\ pc = "summarized"
    /\ posted # << >>
    /\ NoCallFailed
    /\ Len(split(clean_transcript(transcript_text))) > 3996

\* C9: such a run posts one map prompt per chunk, in chunk order, then one reduce
\* prompt around the answers joined in that order; k chunks make k + 1 requests and
\* the value returned is the answer to the last, however long the joined answers.
C9_SingleLevelMapReduce ==
    C9_Case =>
        LET ws == split(clean_transcript(transcript_text))
            k == CeilDiv(Len(ws), 3996)
        IN /\ Len(posted) = k + 1
           /\ \A j \in 1..k :
                 /\ posted[j].prompt
                       = ChunkPromptHead
                         \o join(Space, SubSeq(ws, (j - 1) * 3996 + 1, Min(j * 3996, Len(ws))))
                         \o PromptTail
                 /\ posted[j].max_tokens = 100
           /\ posted[k + 1].prompt
                 = FinalPromptHead \o join(Space, [j \in 1..k |-> posted[j].response])
                   \o PromptTail
           /\ posted[k + 1].max_tokens = 120
           /\ summary = posted[k + 1].response
           /\ ret_line = 144

\* C9 happens: three chunks, and echoed answers that together are again over the
\* threshold, reduced in one request all the same
C9_Witness ==
    /\ C9_Case
    /\ Len(posted) = 4
    /\ Len(split(posted[4].prompt)) > 3996

\* C10 as stated: video_id is assigned whenever main is about to list the languages.
C10_VideoIdAssigned == pc = "list_languages" => video_id # Unbound

====
